---- MODULE Spec2Model ----
(***************************************************************************)
(* Subscription-group segment-membership engine of dittofeed               *)
(* (backend-lib subscriptionGroups): the group registry, the unsubscribe   *)
(* link codec, the link lookup/verification, the subscription listing and  *)
(* the subscription state updater, over the relational tables they use.    *)
(***************************************************************************)
EXTENDS Integers, Sequences, FiniteSets, TLC

\* ------------------------------------------------------------------------
\* Bounded input domains
\* ------------------------------------------------------------------------
Workspaces == {"ws1", "ws2"}
Users == {"u1", "u2"}
Identifiers == {"a@b.com", "c@d.com"}
IdentifierKeys == {"email", "phone"}
Secrets == {"s3cr3t", "other"}
GroupIds == {"g1", "g2"}
GroupNames == {"News", "Alerts"}
GroupTypes == {"OptIn", "OptOut"}

\* largest number of UserPropertyAssignment rows the store starts with
MaxAssignments == 2
\* number of updateUserSubscriptions calls that can be in flight together
MaxCalls == 2
\* largest number of subscription change events built over a run
MaxEvents == 2
\* most PUT requests the email editor sends in a behaviour
MaxSaves == 3

Calls == 1..MaxCalls

None == "none"
\* the value of an optional argument that is not supplied
Undefined == "<undefined>"

VARIABLES
  channel,                \* Channel rows
  secret,                 \* Secret rows
  userPropertyAssignment, \* UserPropertyAssignment rows (of the UserProperty named .name)
  subscriptionGroup,      \* SubscriptionGroup rows
  segment,                \* Segment rows
  segmentAssignment,      \* SegmentAssignment rows
  userEvents,             \* the user event log (sequence of inserted events)
  link,                   \* the last subscription-change link built
  result,                 \* the call completed last: its arguments and what it returned
                          \* (none once a later call has started)
  calls,                  \* the updateUserSubscriptions calls in flight
  nextMessageId,          \* source of fresh message ids (uuid())
  clock,                  \* source of timestamps (new Date())
  editor                  \* the email editor of the dashboard: its store and its
                          \* save requests in flight

vars == <<channel, secret, userPropertyAssignment, subscriptionGroup, segment,
          segmentAssignment, userEvents, link, result, calls, nextMessageId, clock,
          editor>>

inflight == <<calls, nextMessageId, clock>>

tables == <<channel, secret, userPropertyAssignment, subscriptionGroup, segment,
            segmentAssignment, userEvents>>

\* ------------------------------------------------------------------------
\* Secure hash and subscription link codec
\* ------------------------------------------------------------------------

\* Keyed hash of a record, idealised: the digest determines the key and the
\* canonical (key-sorted) serialisation of the record, and nothing else.
generateSecureHash(key, value) ==
  [hmac |-> key,
   msg  |-> <<<<"i", value.i>>, <<"k", value.k>>, <<"u", value.u>>, <<"w", value.w>>>>]

generateSubscriptionHashNoKey(workspaceId, userId, identifierKey, identifier, subscriptionSecret) ==
  LET toHash == [u |-> userId, w |-> workspaceId, i |-> identifier, k |-> None]
  IN  generateSecureHash(subscriptionSecret, toHash)

generateSubscriptionHash(workspaceId, userId, identifierKey, identifier, subscriptionSecret) ==
  LET toHash == [u |-> userId, w |-> workspaceId, i |-> identifier, k |-> identifierKey]
  IN  generateSecureHash(subscriptionSecret, toHash)

SUBSCRIPTION_MANAGEMENT_PAGE == "/public/subscription-management"

\* String(value) of a string or of undefined
String(value) == IF value = Undefined THEN "undefined" ELSE value

\* the value of a name/value pair; the digest h is a string as it is
ParamValue(params, name) == IF name = "h" THEN params[name] ELSE String(params[name])

\* new URLSearchParams(params): every own property becomes a name/value pair,
\* the value converted with String(), so an undefined value is "undefined".
\* The pairs are kept as the consumer reads them back (percent-decoded).
URLSearchParams(params) ==
  [name \in DOMAIN params |-> ParamValue(params, name)]

\* The link: the parameters it carries and the tuple it was built from.
generateSubscriptionChangeUrl(workspaceId, subscriptionSecret, userId, identifier, identifierKey, changedSubscription, subscriptionChange) ==
  LET hash == generateSubscriptionHash(workspaceId, userId, identifierKey,
                                       identifier, subscriptionSecret)
      params == [w   |-> workspaceId,
                 i   |-> identifier,
                 ik  |-> identifierKey,
                 h   |-> hash,
                 s   |-> changedSubscription,
                 sub |-> IF subscriptionChange = "Subscribe" THEN "1" ELSE "0"]
  IN  [path |-> "/dashboard" \o SUBSCRIPTION_MANAGEMENT_PAGE,
       query |-> URLSearchParams(params)]

\* JSON.stringify of a string without characters that need escaping
JSONStringify(s) == "\"" \o s \o "\""

\* ------------------------------------------------------------------------
\* Initial store
\* ------------------------------------------------------------------------
ChannelRow(w) == [id |-> "channel-" \o w, workspaceId |-> w, name |-> "email"]

SUBSCRIPTION_SECRET_NAME == "subscription-secret"

\* the value of the subscription secret of the workspaces that have one
ProvisionedSecret == "s3cr3t"

SecretRow(w, v) == [workspaceId |-> w, name |-> SUBSCRIPTION_SECRET_NAME, value |-> v]

AssignmentRows ==
  [workspaceId : Workspaces, name : IdentifierKeys, userId : Users,
   value : {JSONStringify(i) : i \in Identifiers}]

\* at most one assignment per (workspace, user property, user)
UniqueAssignments(rows) ==
  \A a, b \in rows :
    (a.workspaceId = b.workspaceId /\ a.name = b.name /\ a.userId = b.userId) => a = b

NoLink == [built |-> FALSE]

\* the editor as the page opens it: nothing being saved or saved, no
\* workspace loaded and no message id in the route
defaultEmailMessageState ==
  [emailMessageUpdateRequest |-> [type |-> "NotStarted"],
   emailMessageBody |-> "draft",
   workspace |-> None,
   messageId |-> None,
   requests |-> <<>>,
   sent |-> 0,
   messages |-> {},
   handled |-> None]
NoResult == [op |-> None]
Idle == [state |-> "idle"]

InitStore ==
  /\ subscriptionGroup = {}
  /\ segment = {}
  /\ segmentAssignment = {}
  /\ userEvents = <<>>
  /\ link = NoLink
  /\ result = NoResult
  /\ calls = [c \in Calls |-> Idle]
  /\ nextMessageId = 1
  /\ clock = 1
  /\ editor = defaultEmailMessageState

\* Store of the link specifications: any provisioning of secrets and of
\* user property assignments.
InitLookup ==
  /\ InitStore
  /\ channel = {}
  /\ \E provisioned \in SUBSET Workspaces :
       secret = {SecretRow(w, ProvisionedSecret) : w \in provisioned}
  /\ \E rows \in SUBSET AssignmentRows :
       /\ Cardinality(rows) <= MaxAssignments
       /\ UniqueAssignments(rows)
       /\ userPropertyAssignment = rows

\* ------------------------------------------------------------------------
\* generateSubscriptionChangeUrl as an operation: a link is built and kept
\* ------------------------------------------------------------------------
BuildLink(workspaceId, subscriptionSecret, userId, identifier, identifierKey, changedSubscription, subscriptionChange) ==
  /\ link' = [built |-> TRUE,
              for |-> [workspaceId |-> workspaceId, userId |-> userId,
                      identifier |-> identifier, identifierKey |-> identifierKey,
                      subscriptionSecret |-> subscriptionSecret],
              url |-> generateSubscriptionChangeUrl(workspaceId, subscriptionSecret,
                        userId, identifier, identifierKey,
                        changedSubscription, subscriptionChange)]
  /\ result' = [op |-> "generateSubscriptionChangeUrl",
                changedSubscription |-> changedSubscription,
                subscriptionChange |-> subscriptionChange]
  /\ UNCHANGED <<editor, tables, inflight>>

\* ------------------------------------------------------------------------
\* lookupUserForSubscriptions
\* ------------------------------------------------------------------------
Ok(v) == [kind |-> "ok", value |-> v]
Err(m) == [kind |-> "err", message |-> m]
Throw(m) == [kind |-> "throw", message |-> m]

\* secret.findUnique({workspaceId_name})
FindSecret(workspaceId) ==
  {r \in secret : r.workspaceId = workspaceId /\ r.name = SUBSCRIPTION_SECRET_NAME}

\* userProperty.findUnique({workspaceId_name}) with its UserPropertyAssignment
\* rows whose value is JSON.stringify(identifier)
FindUserPropertyAssignments(workspaceId, identifierKey, identifier) ==
  {a \in userPropertyAssignment :
     /\ a.workspaceId = workspaceId
     /\ a.name = identifierKey
     /\ a.value = JSONStringify(identifier)}

\* the lookup without the comparison of the hashes
LookupOutcomeNoHashCheck(workspaceId, identifier, identifierKey, hash, subscriptionSecret, first) ==
  IF first = {} THEN Err("User not found")
  ELSE IF subscriptionSecret = {} THEN Throw("Subscription secret not found")
  ELSE Ok([userId |-> (CHOOSE a \in first : TRUE).userId])

\* The body after the two reads; first holds UserPropertyAssignment[0], if any.
LookupOutcome(workspaceId, identifier, identifierKey, hash, subscriptionSecret, first) ==
  IF first = {} THEN Err("User not found")
  ELSE IF subscriptionSecret = {} THEN Throw("Subscription secret not found")
  ELSE LET s == CHOOSE r \in subscriptionSecret : TRUE
           userPropertyAssignment0 == CHOOSE a \in first : TRUE
           userId == userPropertyAssignment0.userId
           expectedHash == generateSubscriptionHash(workspaceId, userId,
                             identifierKey, identifier, s.value)
       IN  IF expectedHash # hash THEN Err("Hash mismatch")
           ELSE Ok([userId |-> userId])

\* The rows the store may list first: the query has no ordering.
FirstRows(rows) == IF rows = {} THEN {{}} ELSE {{r} : r \in rows}

lookupUserForSubscriptions(workspaceId, identifier, identifierKey, hash) ==
  LET subscriptionSecret == FindSecret(workspaceId)
      userProperties == FindUserPropertyAssignments(workspaceId, identifierKey, identifier)
  IN  /\ \E first \in FirstRows(userProperties) :
           result' = [op |-> "lookupUserForSubscriptions",
                      workspaceId |-> workspaceId,
                      identifier |-> identifier,
                      identifierKey |-> identifierKey,
                      hash |-> hash,
                      resolved |-> {a.userId : a \in first},
                      outcome |-> LookupOutcome(workspaceId, identifier, identifierKey,
                                                hash, subscriptionSecret, first)]
      /\ UNCHANGED <<editor, tables, link, inflight>>

\* A recipient follows the link, as built or with one of w, i, ik changed.
FollowLink(workspaceId, identifier, identifierKey) ==
  /\ link.built
  /\ Cardinality({n \in {"w", "i", "ik"} :
        link.url.query[n] # [w |-> workspaceId, i |-> identifier, ik |-> identifierKey][n]}) <= 1
  /\ lookupUserForSubscriptions(workspaceId, identifier, identifierKey, link.url.query.h)

\* One link is built in a behaviour (a later link would replace it and the
\* result, so the states reached are the same), then followed any number of
\* times.
NextLookup ==
  \/ /\ ~link.built
     /\ \E w \in Workspaces, s \in Secrets, u \in Users, i \in Identifiers,
           k \in IdentifierKeys :
          BuildLink(w, s, u, i, k, Undefined, Undefined)
  \/ \E w \in Workspaces, i \in Identifiers, k \in IdentifierKeys :
       FollowLink(w, i, k)

SpecLookup == InitLookup /\ [][NextLookup]_vars

\* ------------------------------------------------------------------------
\* Properties of the link and of its verification (SpecLookup)
\* ------------------------------------------------------------------------
IsLookup == result.op = "lookupUserForSubscriptions"

\* the last call was a lookup with exactly the w, i, ik and h of the link
LinkFollowedAsBuilt ==
  /\ link.built
  /\ IsLookup
  /\ result.workspaceId = link.url.query.w
  /\ result.identifier = link.url.query.i
  /\ result.identifierKey = link.url.query.ik
  /\ result.hash = link.url.query.h

\* the link was built for a user who holds the identifier, with the secret
\* the workspace has
LinkIsValid ==
  /\ link.built
  /\ \E r \in FindSecret(link.for.workspaceId) : r.value = link.for.subscriptionSecret
  /\ \E a \in FindUserPropertyAssignments(link.for.workspaceId, link.for.identifierKey,
                                          link.for.identifier) :
       a.userId = link.for.userId

\* C1: following a valid link as built returns ok with the userId the link
\* was built for, also when other users hold the same identifier value.
C1_RoundTrip ==
  (LinkFollowedAsBuilt /\ LinkIsValid) =>
    (result.outcome.kind = "ok" /\ result.outcome.value.userId = link.for.userId)

\* the hash lookup expects for user u, written out from the record it covers
ExpectedHashFor(u) ==
  LET s == CHOOSE r \in FindSecret(result.workspaceId) : TRUE
  IN  generateSecureHash(s.value, [u |-> u, w |-> result.workspaceId,
                                   i |-> result.identifier, k |-> result.identifierKey])

\* C2: lookup returns ok({userId}) only for the user resolved from the
\* (identifierKey, identifier) assignment and only when the supplied hash is
\* the hash of {u, w, i, k} under the workspace's secret; with a user
\* resolved and a different hash it returns "Hash mismatch", and with no
\* matching assignment it returns "User not found".
C2_LookupVerifiesHash ==
  IsLookup =>
    LET matching == FindUserPropertyAssignments(result.workspaceId, result.identifierKey,
                                                result.identifier)
        hasSecret == FindSecret(result.workspaceId) # {}
    IN  /\ result.resolved \subseteq {a.userId : a \in matching}
        /\ (matching # {}) = (result.resolved # {})
        /\ result.outcome.kind = "ok" =>
             /\ hasSecret
             /\ result.resolved = {result.outcome.value.userId}
             /\ result.hash = ExpectedHashFor(result.outcome.value.userId)
        /\ \A u \in result.resolved :
             (hasSecret /\ result.hash # ExpectedHashFor(u)) =>
               (result.outcome.kind = "err" /\ result.outcome.message = "Hash mismatch")
        /\ matching = {} =>
             (result.outcome.kind = "err" /\ result.outcome.message = "User not found")

\* a lookup that resolved a user and rejected the hash
C2_Witness ==
  /\ IsLookup
  /\ result.resolved # {}
  /\ result.outcome.kind = "err"
  /\ result.outcome.message = "Hash mismatch"

\* C3: a lookup in a workspace without subscription secret throws; it never
\* returns a typed error, whatever identifier, identifierKey and hash are.
C3_MissingSecretThrows ==
  (IsLookup /\ FindSecret(result.workspaceId) = {}) => result.outcome.kind = "throw"

LinkTuples ==
  [workspaceId : Workspaces, userId : Users, identifier : Identifiers,
   identifierKey : IdentifierKeys, subscriptionSecret : Secrets]

HashOfTuple(t) ==
  generateSubscriptionHash(t.workspaceId, t.userId, t.identifierKey, t.identifier,
                           t.subscriptionSecret)

DiffersInOne(t1, t2) ==
  Cardinality({f \in DOMAIN t1 : t1[f] # t2[f]}) = 1

\* what a lookup that returned ok verified the hash against
VerifiedTuple ==
  [workspaceId |-> result.workspaceId,
   userId |-> result.outcome.value.userId,
   identifier |-> result.identifier,
   identifierKey |-> result.identifierKey,
   subscriptionSecret |-> (CHOOSE r \in FindSecret(result.workspaceId) : TRUE).value]

\* C4: the hash of a link is the hash of its tuple whenever recomputed, every
\* tuple that differs from it in one of secret, userId, workspaceId,
\* identifier, identifierKey has a different hash, and a lookup accepts the
\* link's hash only when it verifies it against the very tuple of the link.
C4_HashSensitive ==
  link.built =>
    /\ link.url.query.h = HashOfTuple(link.for)
    /\ \A t \in LinkTuples : DiffersInOne(t, link.for) => HashOfTuple(t) # link.url.query.h
    /\ (IsLookup /\ result.hash = link.url.query.h /\ result.outcome.kind = "ok") =>
         VerifiedTuple = link.for

\* the link was followed with the workspace changed, a user of that workspace
\* holds the identifier, and the lookup rejected the hash
C4_Witness ==
  /\ link.built
  /\ IsLookup
  /\ result.hash = link.url.query.h
  /\ result.workspaceId # link.for.workspaceId
  /\ result.resolved = {link.for.userId}
  /\ FindSecret(result.workspaceId) # {}
  /\ result.outcome.kind = "err"
  /\ result.outcome.message = "Hash mismatch"

\* ------------------------------------------------------------------------
\* upsertSubscriptionGroup
\* ------------------------------------------------------------------------
SegmentName(id) == "subscriptionGroup-" \o id

SegmentDefinitionOf(id) ==
  [entryNode |-> [type |-> "SubscriptionGroup", id |-> "1", subscriptionGroupId |-> id],
   nodes |-> <<>>]

\* channel.findUnique({workspaceId_name: {workspaceId, name: "email"}})
FindEmailChannel(workspaceId) ==
  {c \in channel : c.workspaceId = workspaceId /\ c.name = "email"}

\* subscriptionGroup.upsert({where: {id}, create: {...}, update: {name, type}})
SubscriptionGroupUpsert(rows, id, name, type, workspaceId, channelId) ==
  IF \E g \in rows : g.id = id
  THEN {IF g.id = id THEN [g EXCEPT !.name = name, !.type = type] ELSE g : g \in rows}
  ELSE rows \cup {[id |-> id, workspaceId |-> workspaceId, name |-> name,
                   type |-> type, channelId |-> channelId]}

\* segment.upsert({where: {workspaceId_name}, create: {...}, update: {}});
\* a created row gets a fresh id
SegmentUpsert(rows, id, workspaceId) ==
  IF \E sg \in rows : sg.workspaceId = workspaceId /\ sg.name = SegmentName(id)
  THEN rows
  ELSE rows \cup {[id |-> Cardinality(rows) + 1,
                   workspaceId |-> workspaceId,
                   name |-> SegmentName(id),
                   definition |-> SegmentDefinitionOf(id),
                   subscriptionGroupId |-> id,
                   resourceType |-> "Internal"]}

\* a transaction that fails after its first statement leaves that statement applied
TransactionNotAtomic(committed, groupsAfter, segmentsAfter) ==
  IF committed THEN <<groupsAfter, segmentsAfter>> ELSE <<groupsAfter, segment>>

\* prisma.$transaction([group upsert, segment upsert]): both writes or neither
Transaction(committed, groupsAfter, segmentsAfter) ==
  IF committed THEN <<groupsAfter, segmentsAfter>> ELSE <<subscriptionGroup, segment>>

UpsertResult(id, name, type, workspaceId, outcome) ==
  [op |-> "upsertSubscriptionGroup", id |-> id, name |-> name, type |-> type,
   workspaceId |-> workspaceId, outcome |-> outcome]

\* the channel check made only after the writes
upsertSubscriptionGroupLateCheck(id, name, type, workspaceId) ==
  LET emailChannel == FindEmailChannel(workspaceId)
      channelId == IF emailChannel = {} THEN None
                   ELSE (CHOOSE c \in emailChannel : TRUE).id
  IN  /\ subscriptionGroup' = SubscriptionGroupUpsert(subscriptionGroup, id, name, type,
                                                      workspaceId, channelId)
      /\ segment' = SegmentUpsert(segment, id, workspaceId)
      /\ result' = UpsertResult(id, name, type, workspaceId,
                                IF emailChannel = {} THEN Err("Email channel not found")
                                ELSE Ok(CHOOSE g \in subscriptionGroup' : g.id = id))
      /\ UNCHANGED <<editor, channel, secret, userPropertyAssignment, segmentAssignment,
                     userEvents, link, inflight>>

upsertSubscriptionGroup(id, name, type, workspaceId) ==
  LET emailChannel == FindEmailChannel(workspaceId)
  IN  /\ IF emailChannel = {}
         THEN /\ result' = UpsertResult(id, name, type, workspaceId,
                                        Err("Email channel not found"))
              /\ UNCHANGED <<subscriptionGroup, segment>>
         ELSE \E committed \in BOOLEAN :
                LET channelId == (CHOOSE c \in emailChannel : TRUE).id
                    written == Transaction(committed,
                                 SubscriptionGroupUpsert(subscriptionGroup, id, name, type,
                                                         workspaceId, channelId),
                                 SegmentUpsert(segment, id, workspaceId))
                IN  /\ subscriptionGroup' = written[1]
                    /\ segment' = written[2]
                    /\ result' = UpsertResult(id, name, type, workspaceId,
                                   IF committed
                                   THEN Ok(CHOOSE g \in written[1] : g.id = id)
                                   ELSE Throw("transaction failed"))
      /\ UNCHANGED <<editor, channel, secret, userPropertyAssignment, segmentAssignment,
                     userEvents, link, inflight>>

\* Store of the registry specification: any set of workspaces has an email
\* channel; no secrets or user properties are needed.
InitRegistry ==
  /\ InitStore
  /\ \E withChannel \in SUBSET Workspaces :
       channel = {ChannelRow(w) : w \in withChannel}
  /\ secret = {}
  /\ userPropertyAssignment = {}

NextRegistry ==
  \E id \in GroupIds, name \in GroupNames, type \in GroupTypes, w \in Workspaces :
    upsertSubscriptionGroup(id, name, type, w)

SpecRegistry == InitRegistry /\ [][NextRegistry]_vars

\* ------------------------------------------------------------------------
\* Properties of the registry (SpecRegistry)
\* ------------------------------------------------------------------------
IsUpsert == result.op = "upsertSubscriptionGroup"

\* the internal segments that reference the group
BackingSegments(g) ==
  {sg \in segment : sg.subscriptionGroupId = g.id /\ sg.resourceType = "Internal"}

\* C5: in every state, also after a failed upsert, every subscription group
\* has its internal segment (in its workspace, under its deterministic name,
\* defined by the single SubscriptionGroup node of the group) and every
\* internal segment references an existing subscription group.
C5_GroupAndSegmentTogether ==
  /\ \A g \in subscriptionGroup :
       \E sg \in BackingSegments(g) :
         /\ sg.workspaceId = g.workspaceId
         /\ sg.name = SegmentName(g.id)
         /\ sg.definition = SegmentDefinitionOf(g.id)
  /\ \A sg \in segment : \E g \in subscriptionGroup : g.id = sg.subscriptionGroupId

\* an upsert of a new id failed while other groups exist
C5_Witness ==
  /\ IsUpsert
  /\ result.outcome.kind = "throw"
  /\ subscriptionGroup # {}
  /\ \A g \in subscriptionGroup : g.id # result.id

\* C6: after any sequence of upserts every subscription group has exactly
\* one internal segment whose subscriptionGroupId is its id.
C6_ExactlyOneSegmentPerGroup ==
  \A g \in subscriptionGroup : Cardinality(BackingSegments(g)) = 1

\* C7: an upsert with an id that already exists changes only the name and
\* the type of that group: no segment row is created or changed and no
\* group row is added.
C7_SecondUpsertChangesNameAndTypeOnly ==
  [][(/\ result'.op = "upsertSubscriptionGroup"
      /\ result'.outcome.kind = "ok"
      /\ \E g \in subscriptionGroup : g.id = result'.id)
     => /\ segment' = segment
        /\ {g.id : g \in subscriptionGroup'} = {g.id : g \in subscriptionGroup}
        /\ \A g \in subscriptionGroup :
             IF g.id = result'.id
             THEN [g EXCEPT !.name = result'.name, !.type = result'.type]
                    \in subscriptionGroup'
             ELSE g \in subscriptionGroup']_vars

\* C8: an upsert for a workspace without "email" channel returns the error
\* value "Email channel not found" and leaves the SubscriptionGroup and
\* Segment tables as they were.
C8_NoChannelNoWrites ==
  [][(/\ result'.op = "upsertSubscriptionGroup"
      /\ FindEmailChannel(result'.workspaceId) = {})
     => /\ result'.outcome.kind = "err"
        /\ result'.outcome.message = "Email channel not found"
        /\ subscriptionGroup' = subscriptionGroup
        /\ segment' = segment]_vars

\* an upsert was refused for the missing channel while groups exist
C8_Witness ==
  /\ IsUpsert
  /\ FindEmailChannel(result.workspaceId) = {}
  /\ result.outcome.kind = "err"
  /\ subscriptionGroup # {}

\* ------------------------------------------------------------------------
\* getUserSubscriptions
\* ------------------------------------------------------------------------
\* position of a group name in ascending order
NameRank(name) == CASE name = "Alerts" -> 1 [] name = "News" -> 2

\* findMany({where: {workspaceId}, orderBy: {name: "asc"}}): the groups of the
\* workspace by ascending name, groups of equal name in any order
OrderedGroups(workspaceId) ==
  LET groups == {g \in subscriptionGroup : g.workspaceId = workspaceId}
      n == Cardinality(groups)
  IN  {order \in [1..n -> groups] :
         /\ \A a, b \in 1..n : a # b => order[a] # order[b]
         /\ \A a, b \in 1..n : a < b => NameRank(order[a].name) <= NameRank(order[b].name)}

\* include: {Segment: ...}: the segments that reference the group
SegmentsOfGroup(group) == {sg \in segment : sg.subscriptionGroupId = group.id}

\* include: {SegmentAssignment: {where: {userId}}}
AssignmentsOfSegment(sg, userId) ==
  {a \in segmentAssignment : a.segmentId = sg.id /\ a.userId = userId}

\* What the loop can read for a group: Segment[0] (none, or any of the group's
\* segments, the relation being unordered) and SegmentAssignment[0]?.inSegment === true
FirstOfGroup(group, userId) ==
  IF SegmentsOfGroup(group) = {}
  THEN {[segment |-> {}, inSegment |-> FALSE]}
  ELSE UNION {
         IF AssignmentsOfSegment(sg, userId) = {}
         THEN {[segment |-> {sg.id}, inSegment |-> FALSE]}
         ELSE {[segment |-> {sg.id}, inSegment |-> (a.inSegment = TRUE)] :
                 a \in AssignmentsOfSegment(sg, userId)}
         : sg \in SegmentsOfGroup(group)}

RECURSIVE SubscriptionsNoSkip(_, _, _)
\* the loop without the check of the segment: a group without segment gets
\* an entry too
SubscriptionsNoSkip(order, first, k) ==
  IF k > Len(order) THEN <<>>
  ELSE <<[id |-> order[k].id, name |-> order[k].name,
          isSubscribed |-> first[order[k].id].inSegment]>>
       \o SubscriptionsNoSkip(order, first, k + 1)

RECURSIVE Subscriptions(_, _, _)
\* the loop over subscriptionGroups from position k on
Subscriptions(order, first, k) ==
  IF k > Len(order) THEN <<>>
  ELSE LET subscriptionGroup0 == order[k]
           read == first[subscriptionGroup0.id]
       IN  IF read.segment = {}
           THEN Subscriptions(order, first, k + 1)
           ELSE <<[id |-> subscriptionGroup0.id,
                   name |-> subscriptionGroup0.name,
                   isSubscribed |-> read.inSegment]>>
                \o Subscriptions(order, first, k + 1)

\* every list the call can return in the current store
GetUserSubscriptionsResults(workspaceId, userId) ==
  LET groups == {g \in subscriptionGroup : g.workspaceId = workspaceId}
      ids == {g.id : g \in groups}
      reads == UNION {FirstOfGroup(g, userId) : g \in groups}
      firsts == {f \in [ids -> reads] :
                   \A g \in groups : f[g.id] \in FirstOfGroup(g, userId)}
  IN  {Subscriptions(order, first, 1) :
         order \in OrderedGroups(workspaceId), first \in firsts}

getUserSubscriptions(workspaceId, userId) ==
  /\ \E subscriptions \in GetUserSubscriptionsResults(workspaceId, userId) :
       result' = [op |-> "getUserSubscriptions", workspaceId |-> workspaceId,
                  userId |-> userId, value |-> subscriptions]
  /\ UNCHANGED <<editor, tables, link, inflight>>

\* ------------------------------------------------------------------------
\* updateUserSubscriptions
\* ------------------------------------------------------------------------
InternalEventType_SubscriptionChange == "SubscriptionChange"

\* the event built without the user it is about
buildSubscriptionChangeEventInnerAnonymous(messageId, userId, action, subscriptionGroupId, timestamp) ==
  [userId |-> None,
   timestamp |-> timestamp,
   messageId |-> messageId,
   type |-> "track",
   event |-> InternalEventType_SubscriptionChange,
   properties |-> [subscriptionId |-> subscriptionGroupId, action |-> action]]

buildSubscriptionChangeEventInner(messageId, userId, action, subscriptionGroupId, timestamp) ==
  [userId |-> userId,
   timestamp |-> timestamp,
   messageId |-> messageId,
   type |-> "track",
   event |-> InternalEventType_SubscriptionChange,
   properties |-> [subscriptionId |-> subscriptionGroupId, action |-> action]]

\* messageRaw stands for the JSON text of the inner event
buildSubscriptionChangeEvent(messageId, userId, action, subscriptionGroupId, currentTime) ==
  [messageId |-> messageId,
   messageRaw |-> buildSubscriptionChangeEventInner(messageId, userId, action,
                                                    subscriptionGroupId, currentTime)]

\* changes is the list of [subscriptionGroupId, isSubscribed] pairs of the
\* object, in its key order (R.toPairs)
ChangeKeys(changes) == {changes[k][1] : k \in 1..Len(changes)}

\* the query without the workspace in its where clause
FindSegmentsAnyWorkspace(workspaceId, keys) ==
  {sg \in segment : sg.subscriptionGroupId \in keys}

\* segment.findMany({where: {workspaceId, subscriptionGroupId: {in: keys}}})
FindSegments(workspaceId, keys) ==
  {sg \in segment : sg.workspaceId = workspaceId /\ sg.subscriptionGroupId \in keys}

\* the reduce: per subscription group id, the segment listed last
SegmentMaps(segments) ==
  LET ids == {sg.subscriptionGroupId : sg \in segments}
  IN  {f \in [ids -> {sg.id : sg \in segments}] :
         \A g \in ids : \E sg \in segments : sg.id = f[g] /\ sg.subscriptionGroupId = g}

\* events are built only for the groups whose segment was found
UserEventsOfFound(changes, segmentBySubscriptionGroupId, userId, firstMessageId, currentTime) ==
  LET found == SelectSeq(changes, LAMBDA pair : pair[1] \in DOMAIN segmentBySubscriptionGroupId)
  IN  [k \in 1..Len(found) |->
         buildSubscriptionChangeEvent(firstMessageId + k - 1, userId,
           IF found[k][2] THEN "Subscribe" ELSE "UnSubscribe", found[k][1], currentTime)]

\* changePairs.flatMap(buildSubscriptionChangeEvent): one event per pair
UserEventsOf(changes, segmentBySubscriptionGroupId, userId, firstMessageId, currentTime) ==
  [k \in 1..Len(changes) |->
     buildSubscriptionChangeEvent(firstMessageId + k - 1, userId,
       IF changes[k][2] THEN "Subscribe" ELSE "UnSubscribe", changes[k][1], currentTime)]

\* changePairs.flatMap: one upsert per pair whose segment was found, none otherwise
SegmentAssignmentUpdates(changes, segmentBySubscriptionGroupId) ==
  {[subscriptionGroupId |-> changes[k][1],
    segmentId |-> segmentBySubscriptionGroupId[changes[k][1]],
    inSegment |-> changes[k][2]] :
     k \in {j \in 1..Len(changes) : changes[j][1] \in DOMAIN segmentBySubscriptionGroupId}}

\* an upsert whose where clause leaves out the user: the rows of every user
\* on the segment are set
SegmentAssignmentUpsertAnyUser(rows, workspaceId, userId, segmentId, inSegment) ==
  IF \E r \in rows : r.workspaceId = workspaceId /\ r.segmentId = segmentId
  THEN {IF r.workspaceId = workspaceId /\ r.segmentId = segmentId
        THEN [r EXCEPT !.inSegment = inSegment] ELSE r : r \in rows}
  ELSE rows \cup {[workspaceId |-> workspaceId, userId |-> userId,
                   segmentId |-> segmentId, inSegment |-> inSegment]}

\* an upsert whose update flips the stored value instead of setting it
SegmentAssignmentToggle(rows, workspaceId, userId, segmentId, inSegment) ==
  IF \E r \in rows : r.workspaceId = workspaceId /\ r.userId = userId /\ r.segmentId = segmentId
  THEN {IF r.workspaceId = workspaceId /\ r.userId = userId /\ r.segmentId = segmentId
        THEN [r EXCEPT !.inSegment = ~r.inSegment] ELSE r : r \in rows}
  ELSE rows \cup {[workspaceId |-> workspaceId, userId |-> userId,
                   segmentId |-> segmentId, inSegment |-> inSegment]}

\* a plain create in place of the upsert: a row is added whatever the table holds
SegmentAssignmentCreate(rows, workspaceId, userId, segmentId, inSegment) ==
  rows \cup {[workspaceId |-> workspaceId, userId |-> userId,
              segmentId |-> segmentId, inSegment |-> inSegment]}

\* segmentAssignment.upsert({where: {workspaceId_userId_segmentId}, create, update: {inSegment}})
SegmentAssignmentUpsert(rows, workspaceId, userId, segmentId, inSegment) ==
  IF \E r \in rows : r.workspaceId = workspaceId /\ r.userId = userId /\ r.segmentId = segmentId
  THEN {IF r.workspaceId = workspaceId /\ r.userId = userId /\ r.segmentId = segmentId
        THEN [r EXCEPT !.inSegment = inSegment] ELSE r : r \in rows}
  ELSE rows \cup {[workspaceId |-> workspaceId, userId |-> userId,
                   segmentId |-> segmentId, inSegment |-> inSegment]}

\* insertUserEvents({workspaceId, userEvents}): the batch is appended to the log
insertUserEvents(log, workspaceId, events) ==
  log \o [k \in 1..Len(events) |->
            [workspaceId |-> workspaceId, messageId |-> events[k].messageId,
             messageRaw |-> events[k].messageRaw]]

\* The call up to Promise.all: the segments are read, the events built and
\* the writes issued.
UpdateIssue(c, workspaceId, userId, changes) ==
  /\ calls[c] = Idle
  /\ nextMessageId + Len(changes) <= MaxEvents + 1
  /\ \E segmentBySubscriptionGroupId \in
         SegmentMaps(FindSegments(workspaceId, ChangeKeys(changes))) :
       calls' = [calls EXCEPT ![c] =
         [state |-> "writing",
          workspaceId |-> workspaceId,
          userId |-> userId,
          changes |-> changes,
          segmentBySubscriptionGroupId |-> segmentBySubscriptionGroupId,
          userEvents |-> UserEventsOf(changes, segmentBySubscriptionGroupId, userId,
                                      nextMessageId, clock),
          segmentAssignmentUpdates |->
            SegmentAssignmentUpdates(changes, segmentBySubscriptionGroupId),
          insertPending |-> TRUE,
          inserted |-> FALSE,
          written |-> {},
          rejected |-> FALSE]]
  /\ nextMessageId' = nextMessageId + Len(changes)
  /\ clock' = clock + 1
  /\ UNCHANGED <<editor, tables, link>>

\* a call is started; no completed operation is on record while it runs
UpdateStart(c, workspaceId, userId, changes) ==
  /\ UpdateIssue(c, workspaceId, userId, changes)
  /\ result' = NoResult

\* the completed call on record is started again with the same arguments
RetryStart(c) ==
  /\ result.op = "updateUserSubscriptions"
  /\ UpdateIssue(c, result.workspaceId, result.userId, result.changes)
  /\ UNCHANGED result

\* one of the issued segment assignment upserts is applied
UpsertApplied(c) ==
  /\ calls[c].state = "writing"
  /\ \E u \in calls[c].segmentAssignmentUpdates :
       /\ segmentAssignment' = SegmentAssignmentUpsert(segmentAssignment,
            calls[c].workspaceId, calls[c].userId, u.segmentId, u.inSegment)
       /\ calls' = [calls EXCEPT ![c].segmentAssignmentUpdates = @ \ {u},
                                 ![c].written = @ \cup {u}]
  /\ UNCHANGED <<editor, channel, secret, userPropertyAssignment, subscriptionGroup, segment,
                 userEvents, link, result, nextMessageId, clock>>

\* one of the issued segment assignment upserts is rejected by the store
UpsertRejected(c) ==
  /\ calls[c].state = "writing"
  /\ \E u \in calls[c].segmentAssignmentUpdates :
       calls' = [calls EXCEPT ![c].segmentAssignmentUpdates = @ \ {u},
                              ![c].rejected = TRUE]
  /\ UNCHANGED <<editor, tables, link, result, nextMessageId, clock>>

\* the batch event append is applied
InsertApplied(c) ==
  /\ calls[c].state = "writing"
  /\ calls[c].insertPending
  /\ userEvents' = insertUserEvents(userEvents, calls[c].workspaceId, calls[c].userEvents)
  /\ calls' = [calls EXCEPT ![c].insertPending = FALSE, ![c].inserted = TRUE]
  /\ UNCHANGED <<editor, channel, secret, userPropertyAssignment, subscriptionGroup, segment,
                 segmentAssignment, link, result, nextMessageId, clock>>

\* a rejected event append that cancels the upserts still pending, as a
\* transaction over both stores would
InsertRejectedCancels(c) ==
  /\ calls[c].state = "writing"
  /\ calls[c].insertPending
  /\ calls' = [calls EXCEPT ![c].insertPending = FALSE, ![c].rejected = TRUE,
                            ![c].segmentAssignmentUpdates = {}]
  /\ UNCHANGED <<editor, tables, link, result, nextMessageId, clock>>

\* the batch event append is rejected by the event store
InsertRejected(c) ==
  /\ calls[c].state = "writing"
  /\ calls[c].insertPending
  /\ calls' = [calls EXCEPT ![c].insertPending = FALSE, ![c].rejected = TRUE]
  /\ UNCHANGED <<editor, tables, link, result, nextMessageId, clock>>

\* await Promise.all: the call resolves when no write was rejected and throws
\* otherwise. Promise.all rejects at the first rejection while the other
\* writes still settle; the call is recorded once all of them have settled.
UpdateReturn(c) ==
  /\ calls[c].state = "writing"
  /\ calls[c].segmentAssignmentUpdates = {}
  /\ ~calls[c].insertPending
  /\ result' = [op |-> "updateUserSubscriptions",
                workspaceId |-> calls[c].workspaceId,
                userId |-> calls[c].userId,
                changes |-> calls[c].changes,
                segmentBySubscriptionGroupId |-> calls[c].segmentBySubscriptionGroupId,
                userEvents |-> calls[c].userEvents,
                written |-> calls[c].written,
                inserted |-> calls[c].inserted,
                outcome |-> IF calls[c].rejected THEN Throw("write rejected")
                            ELSE Ok("void")]
  /\ calls' = [calls EXCEPT ![c] = Idle]
  /\ UNCHANGED <<editor, tables, link, nextMessageId, clock>>

\* ------------------------------------------------------------------------
\* The subscription state specification: calls run one at a time; groups
\* are registered, subscriptions are updated (the writes of a call settling
\* in any order, each applied or rejected) and listed.
\* ------------------------------------------------------------------------
ChangePairs == GroupIds \X BOOLEAN

\* the changes objects: one or two entries, in either key order
ChangesInputs ==
  {<<p>> : p \in ChangePairs}
  \cup {pq \in ChangePairs \X ChangePairs : pq[1][1] # pq[2][1]}

\* the name and type each group id is registered with in this specification
RegisteredAs(id) ==
  IF id = "g1" THEN [name |-> "News", type |-> "OptIn"]
  ELSE [name |-> "Alerts", type |-> "OptOut"]

\* the registrations made in this specification: g1 in either workspace
\* (also in both), g2 in ws1
Registrations == {<<"g1", "ws1">>, <<"g1", "ws2">>, <<"g2", "ws1">>}

InitUpdate ==
  /\ InitStore
  /\ channel = {ChannelRow(w) : w \in Workspaces}
  /\ secret = {}
  /\ userPropertyAssignment = {}

NextUpdate ==
  \/ /\ calls[1] = Idle
     /\ \E r \in Registrations :
          upsertSubscriptionGroup(r[1], RegisteredAs(r[1]).name, RegisteredAs(r[1]).type, r[2])
  \/ \E changes \in ChangesInputs : UpdateStart(1, "ws1", "u1", changes)
  \/ UpsertApplied(1)
  \/ UpsertRejected(1)
  \/ InsertApplied(1)
  \/ InsertRejected(1)
  \/ UpdateReturn(1)
  \/ /\ calls[1] = Idle
     /\ getUserSubscriptions("ws1", "u1")

SpecUpdate == InitUpdate /\ [][NextUpdate]_vars

\* ------------------------------------------------------------------------
\* Properties of the state updater (SpecUpdate)
\* ------------------------------------------------------------------------
IsUpdate == result.op = "updateUserSubscriptions"

ActionOf(isSubscribed) == IF isSubscribed THEN "Subscribe" ELSE "UnSubscribe"

\* the group ids of the completed call without segment in its workspace
OrphanIds ==
  {g \in ChangeKeys(result.changes) : FindSegments(result.workspaceId, {g}) = {}}

\* the log ends with one SubscriptionChange event per entry of the changes of
\* the completed call, in their order, and holds no other event of the call
CallEventsAppended ==
  LET n == Len(userEvents)
      m == Len(result.changes)
      ids == {result.userEvents[k].messageId : k \in 1..m}
  IN  /\ n >= m
      /\ \A k \in 1..m :
           LET e == userEvents[n - m + k]
           IN  /\ e.workspaceId = result.workspaceId
               /\ e.messageId \in ids
               /\ e.messageRaw.userId = result.userId
               /\ e.messageRaw.type = "track"
               /\ e.messageRaw.event = "SubscriptionChange"
               /\ e.messageRaw.properties.subscriptionId = result.changes[k][1]
               /\ e.messageRaw.properties.action = ActionOf(result.changes[k][2])
      /\ Cardinality({i \in 1..n : userEvents[i].messageId \in ids}) = m

\* C9: after a successful update, for every group id of the changes that
\* has a backing segment in the workspace, every list getUserSubscriptions
\* can return for the user reports the group with isSubscribed equal to the
\* desired value, and the call appended exactly one SubscriptionChange event
\* per entry, Subscribe for true and UnSubscribe for false.
C9_UpdateThenList ==
  (IsUpdate /\ result.outcome.kind = "ok") =>
    /\ \A k \in 1..Len(result.changes) :
         FindSegments(result.workspaceId, {result.changes[k][1]}) # {} =>
           \A subscriptions \in GetUserSubscriptionsResults(result.workspaceId, result.userId) :
             \E j \in 1..Len(subscriptions) :
               /\ subscriptions[j].id = result.changes[k][1]
               /\ subscriptions[j].isSubscribed = result.changes[k][2]
    /\ CallEventsAppended

\* C10: a call whose changes hold a group id without backing segment does
\* not fail because of it (it resolves when no write is rejected); when it
\* resolves every other group of the changes has its assignment row with the
\* desired value and the log holds the events of all entries, the orphaned
\* group's included; and the user has no assignment row in the workspace but
\* on segments of the workspace, so none for the orphaned group.
C10_OrphanSkipped ==
  (IsUpdate /\ OrphanIds # {}) =>
    /\ (result.inserted /\ \A g \in ChangeKeys(result.changes) \ OrphanIds :
                             \E u \in result.written : u.subscriptionGroupId = g)
         => result.outcome.kind = "ok"
    /\ result.outcome.kind = "ok" =>
         /\ \A k \in 1..Len(result.changes) :
              result.changes[k][1] \notin OrphanIds =>
                \E sg \in FindSegments(result.workspaceId, {result.changes[k][1]}) :
                  [workspaceId |-> result.workspaceId, userId |-> result.userId,
                   segmentId |-> sg.id, inSegment |-> result.changes[k][2]]
                    \in segmentAssignment
         /\ CallEventsAppended
    /\ \A r \in segmentAssignment :
         (r.workspaceId = result.workspaceId /\ r.userId = result.userId) =>
           \E sg \in segment :
             /\ sg.id = r.segmentId
             /\ sg.workspaceId = result.workspaceId
             /\ sg.subscriptionGroupId \notin OrphanIds

\* a call with an orphaned group and a group with segment has resolved
C10_Witness ==
  /\ IsUpdate
  /\ result.outcome.kind = "ok"
  /\ OrphanIds # {}
  /\ ChangeKeys(result.changes) \ OrphanIds # {}

\* ------------------------------------------------------------------------
\* The concurrent specification: group g1 is registered in ws1 and up to
\* MaxCalls calls of updateUserSubscriptions for user u1 of ws1 and group g1
\* are in flight at once, their writes settling in any order.
\* ------------------------------------------------------------------------
InitConcurrent ==
  /\ channel = {ChannelRow(w) : w \in Workspaces}
  /\ secret = {}
  /\ userPropertyAssignment = {}
  /\ subscriptionGroup = SubscriptionGroupUpsert({}, "g1", RegisteredAs("g1").name, RegisteredAs("g1").type, "ws1", ChannelRow("ws1").id)
  /\ segment = SegmentUpsert({}, "g1", "ws1")
  /\ segmentAssignment = {}
  /\ userEvents = <<>>
  /\ link = NoLink
  /\ result = NoResult
  /\ calls = [c \in Calls |-> Idle]
  /\ nextMessageId = 1
  /\ clock = 1
  /\ editor = defaultEmailMessageState

NextConcurrent ==
  \/ \E c \in Calls, isSubscribed \in BOOLEAN : UpdateStart(c, "ws1", "u1", <<<<"g1", isSubscribed>>>>)
  \/ \E c \in Calls : UpsertApplied(c)
  \/ \E c \in Calls : UpsertRejected(c)
  \/ \E c \in Calls : InsertApplied(c)
  \/ \E c \in Calls : InsertRejected(c)
  \/ \E c \in Calls : UpdateReturn(c)

SpecConcurrent == InitConcurrent /\ [][NextConcurrent]_vars

\* ------------------------------------------------------------------------
\* Properties of concurrent updates (SpecConcurrent)
\* ------------------------------------------------------------------------
\* at most one row per (workspaceId, userId, segmentId)
UniqueSegmentAssignments ==
  \A a, b \in segmentAssignment :
    (a.workspaceId = b.workspaceId /\ a.userId = b.userId /\ a.segmentId = b.segmentId)
      => a = b

\* the upserts of call c applied so far
WrittenBy(c) == IF calls[c].state = "writing" THEN calls[c].written ELSE {}

\* the calls one of whose upserts is applied in the step
Appliers == {c \in Calls : calls[c].state = "writing" /\ calls'[c].state = "writing" /\ calls'[c].written # calls[c].written}

\* C11: in every state there is at most one SegmentAssignment row per
\* (workspaceId, userId, segmentId); the table changes only in a step that
\* applies the upsert of one call, and after that step the row of the triple
\* holds the desired value of that call (last write wins), so that once all
\* calls have completed the row holds the value of the upsert applied last.
C11_LastWriteWins ==
  [][/\ UniqueSegmentAssignments
     /\ UniqueSegmentAssignments'
     /\ Appliers = {} => segmentAssignment' = segmentAssignment
     /\ \A c \in Appliers :
          \A u \in calls'[c].written \ calls[c].written :
            \A r \in segmentAssignment' :
              (r.workspaceId = calls[c].workspaceId /\ r.userId = calls[c].userId /\ r.segmentId = u.segmentId)
                => r.inSegment = u.inSegment]_vars

\* two calls in flight at once have both had their upsert applied, with
\* opposite desired values, on the same row
C11_Witness ==
  \E c, d \in Calls :
    /\ c # d
    /\ \E u \in WrittenBy(c), v \in WrittenBy(d) :
         u.segmentId = v.segmentId /\ u.inSegment # v.inSegment
    /\ segmentAssignment # {}

\* the number of writes of call c not yet settled
PendingWrites(c) == Cardinality(calls[c].segmentAssignmentUpdates) + (IF calls[c].insertPending THEN 1 ELSE 0)

\* the events of call c are in the log
EventsRecorded(c) ==
  \A k \in 1..Len(calls[c].userEvents) :
    \E i \in 1..Len(userEvents) : userEvents[i].messageId = calls[c].userEvents[k].messageId

\* a write of call c is rejected in the step
RejectedIn(c) ==
  /\ calls[c].state = "writing"
  /\ calls'[c].state = "writing"
  /\ PendingWrites(c)' = PendingWrites(c) - 1
  /\ calls'[c].written = calls[c].written
  /\ calls'[c].inserted = calls[c].inserted

\* C12: the upserts and the event append of a call are separate writes and
\* not one transaction: the step in which one write is rejected changes no
\* table (nothing applied before is undone) and settles that write only, a
\* call with a rejected write can still have each pending write applied, and
\* a call's events are in the log exactly when its append was applied,
\* whatever happened to its upserts.
C12_WritesIndependent ==
  [][\A c \in Calls :
       /\ (calls[c].state = "writing" /\ calls'[c].state = "writing" /\ calls'[c].rejected /\ ~calls[c].rejected)
            => (RejectedIn(c) /\ tables' = tables)
       /\ (calls[c].state = "writing" /\ calls[c].rejected /\ calls[c].segmentAssignmentUpdates # {})
            => ENABLED UpsertApplied(c)
       /\ (calls[c].state = "writing" /\ calls[c].rejected /\ calls[c].insertPending)
            => ENABLED InsertApplied(c)
       /\ calls[c].state = "writing" => (calls[c].inserted <=> EventsRecorded(c))]_vars

\* both partial outcomes at once: all writes of two calls have settled, the
\* events of one are recorded while its assignment was rejected, and the
\* assignment of the other is written while its events were rejected
C12_Witness ==
  \E c, d \in Calls :
    /\ calls[c].state = "writing" /\ PendingWrites(c) = 0
    /\ calls[d].state = "writing" /\ PendingWrites(d) = 0
    /\ calls[c].inserted /\ EventsRecorded(c) /\ calls[c].written = {}
    /\ calls[d].written # {} /\ ~calls[d].inserted /\ ~EventsRecorded(d)
    /\ \E u \in calls[d].written :
         [workspaceId |-> calls[d].workspaceId, userId |-> calls[d].userId,
          segmentId |-> u.segmentId, inSegment |-> u.inSegment] \in segmentAssignment

\* ------------------------------------------------------------------------
\* Properties of the listing (SpecUpdate)
\* ------------------------------------------------------------------------
IsList == result.op = "getUserSubscriptions"

\* the user has a row with inSegment = true on a backing segment of the group
SubscribedRowExists(groupId, userId) ==
  \E sg \in SegmentsOfGroup([id |-> groupId]) :
    \E a \in AssignmentsOfSegment(sg, userId) : a.inSegment = TRUE

\* C13: every entry of a list returned by getUserSubscriptions has
\* isSubscribed = true exactly when the user has an assignment row with
\* inSegment = true on the backing segment of the entry's group; without
\* such a row it is false, whatever the type of the group.
C13_SubscribedIffRow ==
  IsList =>
    \A j \in 1..Len(result.value) :
      result.value[j].isSubscribed = SubscribedRowExists(result.value[j].id, result.userId)

\* ------------------------------------------------------------------------
\* The listing specification: getUserSubscriptions as a function of the
\* rows it queries. The store is drawn from the group, segment and
\* assignment rows over three group ids, the rows the loop provides for
\* included: groups without segment and groups with a second segment.
\* ------------------------------------------------------------------------
ListGroupIds == GroupIds \cup {"g3"}

\* the segment row of group id in workspace w, as the transaction creates it
SegmentRow(n, id, w) ==
  [id |-> n, workspaceId |-> w, name |-> SegmentName(id),
   definition |-> SegmentDefinitionOf(id), subscriptionGroupId |-> id,
   resourceType |-> "Internal"]

\* the id of the segment of group id in workspace w
SegmentIdOf(id, w) ==
  2 * (CASE id = "g1" -> 0 [] id = "g2" -> 1 [] OTHER -> 2) + (IF w = "ws1" THEN 1 ELSE 2)

\* the stored forms of a group: its row and none, one or two segments
GroupStores(id) ==
  {[group |-> {}, segments |-> {}]}
  \cup UNION {
         {[group |-> {[id |-> id, workspaceId |-> w, name |-> name,
                       type |-> RegisteredAs(id).type, channelId |-> ChannelRow(w).id]},
           segments |-> {SegmentRow(SegmentIdOf(id, v), id, v) : v \in ws}] :
            name \in GroupNames, ws \in {{}, {w}, Workspaces}}
         : w \in Workspaces}

InitList ==
  /\ channel = {ChannelRow(w) : w \in Workspaces}
  /\ secret = {}
  /\ userPropertyAssignment = {}
  /\ \E stores \in [ListGroupIds -> UNION {GroupStores(id) : id \in ListGroupIds}] :
       /\ \A id \in ListGroupIds : stores[id] \in GroupStores(id)
       /\ subscriptionGroup = UNION {stores[id].group : id \in ListGroupIds}
       /\ segment = UNION {stores[id].segments : id \in ListGroupIds}
  /\ \E isSubscribed \in BOOLEAN :
       segmentAssignment \in
         {{}, {[workspaceId |-> sg.workspaceId, userId |-> "u1", segmentId |-> sg.id,
                inSegment |-> isSubscribed] : sg \in segment}}
  /\ userEvents = <<>>
  /\ link = NoLink
  /\ result = NoResult
  /\ calls = [c \in Calls |-> Idle]
  /\ nextMessageId = 1
  /\ clock = 1
  /\ editor = defaultEmailMessageState

NextList == \E w \in Workspaces, u \in Users : getUserSubscriptions(w, u)

SpecList == InitList /\ [][NextList]_vars

\* the groups of the listed workspace that have a backing segment
ListedGroups ==
  {g \in subscriptionGroup : g.workspaceId = result.workspaceId /\ SegmentsOfGroup(g) # {}}

\* C14: a list returned by getUserSubscriptions(workspaceId, userId) has
\* exactly one entry, with the group's id and name, for each subscription
\* group of the workspace that has a backing segment and no other entry (none
\* for a group of another workspace, none for a group without segment), and
\* its entries are in ascending order of name.
C14_OneEntryPerGroupByName ==
  IsList =>
    /\ Len(result.value) = Cardinality(ListedGroups)
    /\ \A g \in ListedGroups :
         \E j \in 1..Len(result.value) :
           result.value[j].id = g.id /\ result.value[j].name = g.name
    /\ \A a, b \in 1..Len(result.value) :
         a < b => NameRank(result.value[a].name) <= NameRank(result.value[b].name)

\* a list of two entries of different names, returned while the workspace
\* holds a third group that has no segment
C14_Witness ==
  /\ IsList
  /\ Len(result.value) = 2
  /\ result.value[1].name # result.value[2].name
  /\ \E g \in subscriptionGroup :
       g.workspaceId = result.workspaceId /\ SegmentsOfGroup(g) = {}

\* ------------------------------------------------------------------------
\* The core specification: the operations of SpecUpdate and, between calls,
\* lookupUserForSubscriptions for user u1 of ws1, whose email is on file and
\* whose workspace has its subscription secret, with a valid and with a
\* forged hash.
\* ------------------------------------------------------------------------
CoreIdentifier == "a@b.com"

InitCore ==
  /\ InitStore
  /\ channel = {ChannelRow(w) : w \in Workspaces}
  /\ secret = {SecretRow("ws1", ProvisionedSecret)}
  /\ userPropertyAssignment =
       {[workspaceId |-> "ws1", name |-> "email", userId |-> "u1",
         value |-> JSONStringify(CoreIdentifier)]}

NextCore ==
  \/ NextUpdate
  \/ /\ calls[1] = Idle
     /\ \E s \in Secrets :
          lookupUserForSubscriptions("ws1", CoreIdentifier, "email",
            generateSubscriptionHash("ws1", "u1", "email", CoreIdentifier, s))

SpecCore == InitCore /\ [][NextCore]_vars

\* ------------------------------------------------------------------------
\* Properties of the event log (SpecCore)
\* ------------------------------------------------------------------------
\* the log after the step extends the log before it
LogExtended ==
  /\ Len(userEvents') >= Len(userEvents)
  /\ SubSeq(userEvents', 1, Len(userEvents)) = userEvents

\* the log holds no event of the completed call
NoCallEvents ==
  \A i \in 1..Len(userEvents) :
    \A k \in 1..Len(result.userEvents) :
      userEvents[i].messageId # result.userEvents[k].messageId

SubscriptionChanges == {"Subscribe", "UnSubscribe"}

InitLink ==
  /\ InitStore
  /\ channel = {}
  /\ secret = {}
  /\ userPropertyAssignment = {}

NextLink ==
  \E w \in Workspaces, s \in Secrets, u \in Users, i \in Identifiers, k \in IdentifierKeys :
    \E changedSubscription \in GroupIds \cup {Undefined}, subscriptionChange \in SubscriptionChanges \cup {Undefined} :
      BuildLink(w, s, u, i, k, changedSubscription, subscriptionChange)

SpecLink == InitLink /\ [][NextLink]_vars

\* C16: in a link built by generateSubscriptionChangeUrl the parameter s is
\* present exactly when changedSubscription was supplied (and is that group
\* id), the parameter sub is present exactly when subscriptionChange was
\* supplied (and is "1" for Subscribe, "0" for UnSubscribe), and a link built
\* with neither carries the parameters w, i, ik and h and no other.
C16_OptionalParams ==
  link.built =>
    LET query == link.url.query
    IN  /\ "s" \in DOMAIN query <=> result.changedSubscription # Undefined
        /\ "s" \in DOMAIN query => query.s = result.changedSubscription
        /\ "sub" \in DOMAIN query <=> result.subscriptionChange # Undefined
        /\ "sub" \in DOMAIN query =>
             query.sub = (IF result.subscriptionChange = "Subscribe" THEN "1" ELSE "0")
        /\ (result.changedSubscription = Undefined /\ result.subscriptionChange = Undefined)
             => DOMAIN query = {"w", "i", "ik", "h"}

\* ------------------------------------------------------------------------
\* The retry specification: group g1 is registered in ws1 (g2 is not), user
\* u1 may have a row already; one call of updateUserSubscriptions runs
\* through slot 1 and, once it has completed, the same call is run again
\* through slot 2, the completed run staying on record meanwhile.
\* ------------------------------------------------------------------------
InitRetry ==
  /\ channel = {ChannelRow(w) : w \in Workspaces}
  /\ secret = {}
  /\ userPropertyAssignment = {}
  /\ subscriptionGroup = SubscriptionGroupUpsert({}, "g1", RegisteredAs("g1").name, RegisteredAs("g1").type, "ws1", ChannelRow("ws1").id)
  /\ segment = SegmentUpsert({}, "g1", "ws1")
  /\ \E before \in {{}, {TRUE}, {FALSE}} :
       segmentAssignment = {[workspaceId |-> sg.workspaceId, userId |-> "u1",
                             segmentId |-> sg.id, inSegment |-> b] :
                              sg \in segment, b \in before}
  /\ userEvents = <<>>
  /\ link = NoLink
  /\ result = NoResult
  /\ calls = [c \in Calls |-> Idle]
  /\ nextMessageId = 1
  /\ clock = 1
  /\ editor = defaultEmailMessageState

NextRetry ==
  \/ /\ result = NoResult
     /\ \A c \in Calls : calls[c] = Idle
     /\ \E changes \in ChangesInputs : UpdateStart(1, "ws1", "u1", changes)
  \/ /\ \A c \in Calls : calls[c] = Idle
     /\ RetryStart(2)
  \/ \E c \in {1, 2} : UpsertApplied(c)
  \/ \E c \in {1, 2} : UpsertRejected(c)
  \/ \E c \in {1, 2} : InsertApplied(c)
  \/ \E c \in {1, 2} : InsertRejected(c)
  \/ \E c \in {1, 2} : UpdateReturn(c)

SpecRetry == InitRetry /\ [][NextRetry]_vars

\* the second run is in flight
Retrying == calls[2].state = "writing"

ForeignIds(workspaceId, changes) ==
  {g \in ChangeKeys(changes) :
     /\ \E sg \in segment : sg.subscriptionGroupId = g
     /\ \A sg \in segment : sg.subscriptionGroupId = g => sg.workspaceId # workspaceId}

\* row r is one a call in flight may write: in the call's workspace, on a
\* segment of that workspace that backs a group of the changes
WritableBy(c, r) ==
  /\ calls[c].state = "writing"
  /\ r.workspaceId = calls[c].workspaceId
  /\ r.userId = calls[c].userId
  /\ \E sg \in segment :
       /\ sg.id = r.segmentId
       /\ sg.workspaceId = r.workspaceId
       /\ sg.subscriptionGroupId \in ChangeKeys(calls[c].changes)
       /\ sg.subscriptionGroupId \notin ForeignIds(calls[c].workspaceId, calls[c].changes)

\* C18: every SegmentAssignment row a step creates or modifies belongs to
\* the workspace of a call in flight and lies on a segment of that same
\* workspace; for a group id of the changes whose backing segment belongs to
\* another workspace the completed call has applied no upsert and has still
\* built the group's event, which is in the log when the append was applied.
C18_WorkspaceScoped ==
  [][/\ \A r \in (segmentAssignment' \ segmentAssignment) \cup (segmentAssignment \ segmentAssignment') :
          \E c \in Calls : WritableBy(c, r)
     /\ IsUpdate' =>
          \A g \in ForeignIds(result'.workspaceId, result'.changes) :
            /\ \A u \in result'.written : u.subscriptionGroupId # g
            /\ \E k \in 1..Len(result'.userEvents) :
                 /\ result'.userEvents[k].messageRaw.properties.subscriptionId = g
                 /\ result'.inserted =>
                      \E i \in 1..Len(userEvents') :
                        userEvents'[i].messageId = result'.userEvents[k].messageId]_vars

\* a call that names, next to a group of its workspace, a group whose
\* segment belongs to another workspace has resolved, having written a row
\* for the first
C18_Witness ==
  /\ IsUpdate
  /\ result.outcome.kind = "ok"
  /\ ForeignIds(result.workspaceId, result.changes) # {}
  /\ result.written # {}
  /\ segmentAssignment # {}

\* ------------------------------------------------------------------------
\* Workspaces of groups and segments (SpecRegistry)
\* ------------------------------------------------------------------------
\* every internal segment is in the workspace of the group it references
SegmentsInGroupWorkspace ==
  \A sg \in segment :
    sg.resourceType = "Internal" =>
      \E g \in subscriptionGroup :
        g.id = sg.subscriptionGroupId /\ g.workspaceId = sg.workspaceId

\* every group keeps its workspaceId and its channelId in the step
GroupsKeepWorkspaceAndChannel ==
  \A g \in subscriptionGroup :
    \E h \in subscriptionGroup' :
      h.id = g.id /\ h.workspaceId = g.workspaceId /\ h.channelId = g.channelId

\* C19: after every upsertSubscriptionGroup call every internal segment has
\* the workspaceId of the subscription group it references, and the call
\* leaves the workspaceId and the channelId of every existing group as they
\* were, also when it passes the id of an existing group with another
\* workspaceId.
C19_SegmentInGroupWorkspace ==
  [][SegmentsInGroupWorkspace' /\ GroupsKeepWorkspaceAndChannel]_vars

\* ------------------------------------------------------------------------
\* The concurrent specification without failures: as SpecConcurrent, every
\* write being applied.
\* ------------------------------------------------------------------------
NextAllApplied ==
  \/ \E c \in Calls, isSubscribed \in BOOLEAN : UpdateStart(c, "ws1", "u1", <<<<"g1", isSubscribed>>>>)
  \/ \E c \in Calls : UpsertApplied(c)
  \/ \E c \in Calls : InsertApplied(c)
  \/ \E c \in Calls : UpdateReturn(c)

SpecAllApplied == InitConcurrent /\ [][NextAllApplied]_vars

\* the positions in the log of the events for the user and the group
EventsFor(workspaceId, userId, groupId) ==
  {i \in 1..Len(userEvents) :
     /\ userEvents[i].workspaceId = workspaceId
     /\ userEvents[i].messageRaw.userId = userId
     /\ userEvents[i].messageRaw.properties.subscriptionId = groupId}

\* the action of the event appended last for the user and the group
LastAction(workspaceId, userId, groupId) ==
  LET positions == EventsFor(workspaceId, userId, groupId)
      last == CHOOSE i \in positions : \A j \in positions : j <= i
  IN  userEvents[last].messageRaw.properties.action

\* C20: when all concurrent calls, every write of which was applied, have
\* completed, then for every user and group with events in the log the row
\* of the user on the group's segment holds inSegment = true if the event
\* appended last for them is a Subscribe and false if it is an UnSubscribe.
C20_RowMatchesLastEvent ==
  (\A c \in Calls : calls[c] = Idle) =>
    \A w \in Workspaces, u \in Users, g \in GroupIds :
      EventsFor(w, u, g) # {} =>
        \A sg \in FindSegments(w, {g}) :
          \E r \in segmentAssignment :
            /\ r.workspaceId = w /\ r.userId = u /\ r.segmentId = sg.id
            /\ r.inSegment = (LastAction(w, u, g) = "Subscribe")

\* ------------------------------------------------------------------------
\* The frame specification: groups g1 and g2 are registered in ws1, users
\* u1 and u2 may have rows on their segments; any user's subscriptions are
\* updated (one call at a time), listed and looked up.
\* ------------------------------------------------------------------------
InitFrame ==
  /\ channel = {ChannelRow(w) : w \in Workspaces}
  /\ secret = {SecretRow("ws1", ProvisionedSecret)}
  /\ userPropertyAssignment =
       {[workspaceId |-> "ws1", name |-> "email", userId |-> "u1",
         value |-> JSONStringify(CoreIdentifier)]}
  /\ subscriptionGroup =
       SubscriptionGroupUpsert(
         SubscriptionGroupUpsert({}, "g1", RegisteredAs("g1").name, RegisteredAs("g1").type, "ws1", ChannelRow("ws1").id),
         "g2", RegisteredAs("g2").name, RegisteredAs("g2").type, "ws1", ChannelRow("ws1").id)
  /\ segment = SegmentUpsert(SegmentUpsert({}, "g1", "ws1"), "g2", "ws1")
  /\ \E rows \in SUBSET {[workspaceId |-> "ws1", userId |-> u, segmentId |-> n, inSegment |-> (u = "u2")] : u \in Users, n \in {1, 2}} :
       segmentAssignment = rows
  /\ userEvents = <<>>
  /\ link = NoLink
  /\ result = NoResult
  /\ calls = [c \in Calls |-> Idle]
  /\ nextMessageId = 1
  /\ clock = 1
  /\ editor = defaultEmailMessageState

NextFrame ==
  \/ \E u \in Users, changes \in ChangesInputs : UpdateStart(1, "ws1", u, changes)
  \/ UpsertApplied(1)
  \/ UpsertRejected(1)
  \/ InsertApplied(1)
  \/ InsertRejected(1)
  \/ UpdateReturn(1)
  \/ /\ calls[1] = Idle
     /\ \E u \in Users : getUserSubscriptions("ws1", u)
  \/ /\ calls[1] = Idle
     /\ \E s \in Secrets :
          lookupUserForSubscriptions("ws1", CoreIdentifier, "email",
            generateSubscriptionHash("ws1", "u1", "email", CoreIdentifier, s))

SpecFrame == InitFrame /\ [][NextFrame]_vars

\* the call of slot c that the step belongs to
CallOfStep(c) == IF calls[c].state = "writing" THEN calls[c] ELSE calls'[c]

\* row r is outside what the call may touch: of another user, or on a
\* segment that backs no group id of the changes
OutsideCall(call, r) ==
  \/ r.userId # call.userId
  \/ \A sg \in segment :
       sg.id = r.segmentId => sg.subscriptionGroupId \notin ChangeKeys(call.changes)

\* C21: a step of updateUserSubscriptions(workspaceId, userId, changes)
\* leaves the SubscriptionGroup and Segment tables as they were and neither
\* creates, modifies nor deletes a SegmentAssignment row of another user or
\* of a segment that backs no group id of changes; a step of
\* lookupUserForSubscriptions or getUserSubscriptions changes no table.
C21_Frame ==
  [][/\ \A c \in Calls :
          calls'[c] # calls[c] =>
            /\ subscriptionGroup' = subscriptionGroup
            /\ segment' = segment
            /\ \A r \in segmentAssignment : OutsideCall(CallOfStep(c), r) => r \in segmentAssignment'
            /\ \A r \in segmentAssignment' : OutsideCall(CallOfStep(c), r) => r \in segmentAssignment
     /\ result'.op \in {"lookupUserForSubscriptions", "getUserSubscriptions"} => tables' = tables]_vars

\* a call has resolved having written a row on a segment where the other
\* user holds a row of the opposite value, while its own user holds a row
\* on the segment of a group that the changes do not name
C21_Witness ==
  /\ IsUpdate
  /\ result.outcome.kind = "ok"
  /\ \E u \in result.written :
       \E r \in segmentAssignment :
         r.segmentId = u.segmentId /\ r.userId # result.userId /\ r.inSegment # u.inSegment
  /\ \E r \in segmentAssignment :
       /\ r.userId = result.userId
       /\ \A u \in result.written : u.segmentId # r.segmentId
       /\ \E sg \in segment : sg.id = r.segmentId /\ sg.subscriptionGroupId \notin ChangeKeys(result.changes)

\* ------------------------------------------------------------------------
\* The email editor: handleSave
\* ------------------------------------------------------------------------
\* the texts the body of the template is edited to
Bodies == {"draft", "final"}

\* the part of the system the editor does not touch
backend == <<tables, link, result, inflight>>

\* setEmailMessageUpdateRequest; the component is rendered again with the
\* new value before a later click is handled, so handleSave reads it
setEmailMessageUpdateRequest(state, request) ==
  [state EXCEPT !.emailMessageUpdateRequest = request]

\* upsertMessage: the template of that id is replaced or added
upsertMessage(state, message) ==
  [state EXCEPT !.messages = {m \in @ : m.id # message.id} \cup {message}]

\* the page has loaded: workspace and route may or may not provide their ids
EditorOpened ==
  /\ editor.handled = None
  /\ editor.workspace = None
  /\ editor.messageId = None
  /\ \E workspace \in {None, "ws1"}, messageId \in {None, "m1"} :
       /\ workspace # None \/ messageId # None
       /\ editor' = [editor EXCEPT !.workspace = workspace, !.messageId = messageId]
  /\ UNCHANGED backend

\* htmlCodeMirrorHandleChange: the body is edited
htmlCodeMirrorHandleChange(val) ==
  /\ editor' = [editor EXCEPT !.emailMessageBody = val]
  /\ UNCHANGED backend

\* handleSave without its first check: every click sends a request
handleSaveNoGuard ==
  /\ editor.sent < MaxSaves
  /\ editor' = [setEmailMessageUpdateRequest(editor, [type |-> "InProgress"])
                  EXCEPT !.requests = Append(@, [id |-> editor.messageId,
                                                 workspaceId |-> editor.workspace,
                                                 body |-> editor.emailMessageBody]),
                         !.sent = @ + 1,
                         !.handled = "sent"]
  /\ UNCHANGED backend

\* handleSave up to its await: it returns at once while a save is in
\* progress or without workspace or message id, and otherwise sets the
\* status to InProgress and sends the PUT
handleSave ==
  /\ IF \/ editor.emailMessageUpdateRequest.type = "InProgress"
        \/ editor.workspace = None
        \/ editor.messageId = None
     THEN editor' = [editor EXCEPT !.handled = "returned"]
     ELSE /\ editor.sent < MaxSaves
          /\ editor' = [setEmailMessageUpdateRequest(editor, [type |-> "InProgress"])
                       EXCEPT !.requests = Append(@, [id |-> editor.messageId,
                                                      workspaceId |-> editor.workspace,
                                                      body |-> editor.emailMessageBody]),
                              !.sent = @ + 1,
                              !.handled = "sent"]
  /\ UNCHANGED backend

\* the sequence without its k-th element
RemoveAt(seq, k) == SubSeq(seq, 1, k - 1) \o SubSeq(seq, k + 1, Len(seq))

\* axios.put throws: the catch branch
PutFailed ==
  /\ \E k \in 1..Len(editor.requests) :
       editor' = [setEmailMessageUpdateRequest(editor, [type |-> "Failed", error |-> "request"])
                    EXCEPT !.requests = RemoveAt(@, k)]
  /\ UNCHANGED backend

\* axios.put resolves: the response is validated; a response that is not
\* a MessageTemplateResource fails the save, a valid one is upserted
PutResolved ==
  /\ \E k \in 1..Len(editor.requests), valid \in BOOLEAN :
       editor' =
         IF ~valid
         THEN [setEmailMessageUpdateRequest(editor, [type |-> "Failed", error |-> "schema"])
                 EXCEPT !.requests = RemoveAt(@, k)]
         ELSE [setEmailMessageUpdateRequest(
                 upsertMessage(editor, [id |-> editor.requests[k].id,
                                        body |-> editor.requests[k].body]),
                 [type |-> "NotStarted"])
                 EXCEPT !.requests = RemoveAt(@, k)]
  /\ UNCHANGED backend

InitEditor ==
  /\ InitStore
  /\ channel = {}
  /\ secret = {}
  /\ userPropertyAssignment = {}

NextEditor ==
  \/ EditorOpened
  \/ \E val \in Bodies : htmlCodeMirrorHandleChange(val)
  \/ handleSave
  \/ PutFailed
  \/ PutResolved

SpecEditor == InitEditor /\ [][NextEditor]_vars

\* the program state of the editor, the record of the last click left out
EditorState(state) == [state EXCEPT !.handled = None]

\* handleSave would return at its first check
SaveBlocked ==
  \/ editor.emailMessageUpdateRequest.type = "InProgress"
  \/ editor.workspace = None
  \/ editor.messageId = None

\* C22: at most one save request is in flight in every state; a click on
\* save while the status is InProgress, or without workspace or message id,
\* sends no PUT and changes no state of the editor; a save that starts sets
\* the status to InProgress; the status is InProgress only while a request
\* is in flight, and the step that ends a save leaves the status NotStarted,
\* with the validated response upserted, or Failed.
C22_OneSaveInFlight ==
  [][/\ Len(editor.requests) <= 1 /\ Len(editor'.requests) <= 1
     /\ (editor'.handled # editor.handled /\ editor'.handled = "returned") =>
          (SaveBlocked /\ EditorState(editor') = EditorState(editor))
     /\ (SaveBlocked /\ editor'.handled # editor.handled /\ editor.handled # None) =>
          (editor'.handled = "returned" /\ editor'.sent = editor.sent)
     /\ editor'.sent > editor.sent =>
          /\ editor'.emailMessageUpdateRequest.type = "InProgress"
          /\ Len(editor'.requests) = Len(editor.requests) + 1
     /\ (editor'.emailMessageUpdateRequest.type = "InProgress") <=> (Len(editor'.requests) = 1)
     /\ Len(editor'.requests) < Len(editor.requests) =>
          /\ editor'.emailMessageUpdateRequest.type \in {"NotStarted", "Failed"}
          /\ editor'.emailMessageUpdateRequest.type = "NotStarted" =>
               [id |-> editor.requests[1].id, body |-> editor.requests[1].body] \in editor'.messages]_vars

\* a click on save was ignored while the request of a second save, started
\* after the first one had ended, is in flight
C22_Witness ==
  /\ editor.handled = "returned"
  /\ editor.emailMessageUpdateRequest.type = "InProgress"
  /\ Len(editor.requests) = 1
  /\ editor.sent = 2

====
